---------------------------- MODULE Spec2Model ----------------------------
(***************************************************************************)
(* memory_notation.h: a vocabulary of pointer annotations that are macros  *)
(* with an empty replacement list, and memory_cleanup_(f), the one macro   *)
(* with a non-empty replacement list, __attribute__((cleanup(f))).         *)
(*                                                                         *)
(* The header holds no executable code of its own: what it does is decided *)
(* by what the preprocessor makes of a translation unit that uses it.  The *)
(* model therefore feeds an arbitrary client program, one statement at a   *)
(* time, to two runs:                                                      *)
(*   runA  the program as written, preprocessed with the header's macros,  *)
(*   runE  the program with every annotation erased by hand, preprocessed. *)
(* A run is the abstract machine of the client program: a heap of          *)
(* resources, a stack of lexical scopes with the automatic variables       *)
(* declared in them, and the number of times each variable's cleanup       *)
(* function has been called.                                               *)
(***************************************************************************)
EXTENDS Integers, Sequences, FiniteSets

\* Bounds of the client programs explored.
MaxSteps == 5
MaxBindings == 2
MaxDepth == 3

Res == {"p", "q"}
CleanupFns == {"freep", "logp"}
Ids == 1..MaxBindings

Tok(k, a) == [k |-> k, a |-> a]

(***************************************************************************)
(* The macros, one definition per #define: the replacement list as a       *)
(* sequence of tokens.                                                     *)
(***************************************************************************)
memory_guarded == <<>>
memory_owner == <<>>
memory_take_possession == <<>>
memory_keep_alive == <<>>
memory_release_after_of(mem) == <<>>
memory_owner_of(mem) == <<>>
memory_ref_count == <<>>
memory_ptr_inout == <<>>
memory_ptr_out == <<>>

m_g == <<>>
m_o == <<>>
\* m_t left without a definition: the identifier survives preprocessing.
m_t_undefined == <<Tok("m_t", "")>>
m_t == <<>>
m_o_(mem) == <<>>
m_rc == <<>>
m_io == <<>>
m_out == <<>>

\* memory_cleanup_ defined like the annotations, with nothing to replace it.
memory_cleanup_inert(f) == <<>>
memory_cleanup_(f) == <<Tok("__attribute__cleanup", f)>>

ObjectLike ==
  {"memory_guarded", "memory_owner", "memory_take_possession",
   "memory_keep_alive", "memory_ref_count", "memory_ptr_inout",
   "memory_ptr_out", "m_g", "m_o", "m_t", "m_rc", "m_io", "m_out"}
FunctionLike == {"memory_release_after_of", "memory_owner_of", "m_o_"}
Annotations == ObjectLike \cup FunctionLike

\* One token through the preprocessor.  A function-like macro's name that is
\* not followed by an argument list is not an invocation and is left alone.
Expand(t) ==
  CASE t.k = "memory_guarded" -> memory_guarded
    [] t.k = "memory_owner" -> memory_owner
    [] t.k = "memory_take_possession" -> memory_take_possession
    [] t.k = "memory_keep_alive" -> memory_keep_alive
    [] t.k = "memory_release_after_of" /\ t.a # "" -> memory_release_after_of(t.a)
    [] t.k = "memory_owner_of" /\ t.a # "" -> memory_owner_of(t.a)
    [] t.k = "memory_ref_count" -> memory_ref_count
    [] t.k = "memory_ptr_inout" -> memory_ptr_inout
    [] t.k = "memory_ptr_out" -> memory_ptr_out
    [] t.k = "m_g" -> m_g
    [] t.k = "m_o" -> m_o
    [] t.k = "m_t" -> m_t
    [] t.k = "m_o_" /\ t.a # "" -> m_o_(t.a)
    [] t.k = "m_rc" -> m_rc
    [] t.k = "m_io" -> m_io
    [] t.k = "m_out" -> m_out
    [] t.k = "memory_cleanup_" /\ t.a # "" -> memory_cleanup_(t.a)
    [] OTHER -> <<t>>

RECURSIVE Preprocess(_)
Preprocess(ts) ==
  IF ts = <<>> THEN <<>> ELSE Expand(Head(ts)) \o Preprocess(Tail(ts))

\* The program with its annotations erased by hand (memory_cleanup_ is not
\* an annotation: it stays).
Erase(ts) == SelectSeq(ts, LAMBDA t : t.k \notin Annotations)

(***************************************************************************)
(* The abstract machine of the client program.                             *)
(***************************************************************************)
VARIABLES runA, runE, marked, last, n

vars == <<runA, runE, marked, last, n>>

Frame(kind) == [kind |-> kind, vars |-> <<>>]

InitRun ==
  [heap |-> [r \in Res |-> "unalloc"],
   ub |-> FALSE,
   err |-> FALSE,
   stack |-> <<Frame("fn")>>,
   pend |-> "none",
   ran |-> [b \in Ids |-> 0],
   nextId |-> 1,
   halted |-> FALSE]

\* free(r) and a read through r.
DoFree(run, r) ==
  IF run.heap[r] = "live"
    THEN [run EXCEPT !.heap[r] = "freed"]
    ELSE [run EXCEPT !.ub = TRUE]

DoUse(run, r) ==
  IF run.heap[r] = "live" THEN run ELSE [run EXCEPT !.ub = TRUE]

\* The call f(&v) the compiler inserts for a variable declared with
\* __attribute__((cleanup(f))): freep releases what v points to, logp leaves
\* the heap alone.
CallCleanup(run, v) ==
  IF v.cleanup = "none" THEN run
  ELSE LET r1 == IF v.cleanup = "freep" THEN DoFree(run, v.r) ELSE run
       IN [r1 EXCEPT !.ran[v.id] = @ + 1]

\* The variables of one scope go out of scope in reverse order of declaration.
RECURSIVE RunCleanups(_, _)
RunCleanups(run, vs) ==
  IF vs = <<>> THEN run
  ELSE RunCleanups(CallCleanup(run, vs[Len(vs)]), SubSeq(vs, 1, Len(vs) - 1))

\* Control leaves the k innermost scopes.
RECURSIVE PopFrames(_, _)
PopFrames(run, k) ==
  IF k = 0 \/ run.stack = <<>> THEN run
  ELSE LET top == run.stack[Len(run.stack)]
           r1 == RunCleanups(run, top.vars)
       IN PopFrames([r1 EXCEPT !.stack = SubSeq(@, 1, Len(@) - 1)], k - 1)

\* Number of scopes between the current point and the end of the innermost
\* loop body, that body included; 0 when not in a loop.
RECURSIVE LoopDepth(_)
LoopDepth(st) ==
  IF st = <<>> THEN 0
  ELSE IF st[Len(st)].kind = "loop" THEN 1
  ELSE LET d == LoopDepth(SubSeq(st, 1, Len(st) - 1))
       IN IF d = 0 THEN 0 ELSE d + 1

Push(run, kind) == [run EXCEPT !.stack = Append(@, Frame(kind))]

Finish(run) == [run EXCEPT !.halted = TRUE]

\* One preprocessed token executed.
Exec(run, t) ==
  CASE t.k = "malloc" -> [run EXCEPT !.heap[t.a] = "live"]
    [] t.k = "free" -> DoFree(run, t.a)
    [] t.k = "use" -> DoUse(run, t.a)
    [] t.k = "__attribute__cleanup" -> [run EXCEPT !.pend = t.a]
    [] t.k = "decl" ->
         [run EXCEPT
            !.stack[Len(run.stack)].vars =
               Append(@, [id |-> run.nextId, r |-> t.a, cleanup |-> run.pend]),
            !.pend = "none",
            !.nextId = @ + 1]
    [] t.k = "{" -> Push(run, "block")
    [] t.k = "loop{" -> Push(run, "loop")
    [] t.k = "}" ->
         LET r1 == PopFrames(run, 1)
         IN IF r1.stack = <<>> THEN Finish(r1) ELSE r1
    [] t.k = "return" -> Finish(PopFrames(run, Len(run.stack)))
    [] t.k = "break" -> PopFrames(run, LoopDepth(run.stack))
    [] t.k = "continue" -> Push(PopFrames(run, LoopDepth(run.stack)), "loop")
    [] t.k = "abort" -> Finish(run)
    [] OTHER -> [run EXCEPT !.err = TRUE]

RECURSIVE ExecAll(_, _)
ExecAll(run, ts) ==
  IF ts = <<>> THEN run ELSE ExecAll(Exec(run, Head(ts)), Tail(ts))

OpenIds(run) ==
  {run.stack[i].vars[j].id : <<i, j>> \in
     {p \in (1..Len(run.stack)) \X Ids : p[2] <= Len(run.stack[p[1]].vars)}}

Init ==
  /\ runA = InitRun
  /\ runE = InitRun
  /\ marked = [b \in Ids |-> "none"]
  /\ last = "start"
  /\ n = 0

\* The next statement of the client program, ts, reaches both runs.
Feed(ts, kind) ==
  /\ ~runA.halted
  /\ n < MaxSteps
  /\ runA' = ExecAll(runA, Preprocess(ts))
  /\ runE' = ExecAll(runE, Preprocess(Erase(ts)))
  /\ last' = kind
  /\ n' = n + 1

Malloc == \E r \in Res : Feed(<<Tok("malloc", r)>>, "malloc") /\ UNCHANGED marked

Free == \E r \in Res : Feed(<<Tok("free", r)>>, "free") /\ UNCHANGED marked

Use == \E r \in Res : Feed(<<Tok("use", r)>>, "use") /\ UNCHANGED marked

Annotate == \E m \in ObjectLike : Feed(<<Tok(m, "")>>, "annotation") /\ UNCHANGED marked

AnnotateOf ==
  \E m \in FunctionLike, mem \in Res : Feed(<<Tok(m, mem)>>, "annotation_of") /\ UNCHANGED marked

Declare ==
  \E r \in Res :
    /\ runA.nextId <= MaxBindings
    /\ Feed(<<Tok("decl", r)>>, "decl")
    /\ UNCHANGED marked

\* memory_cleanup_(f) T x;
DeclareCleanup ==
  \E f \in CleanupFns, r \in Res :
    /\ runA.nextId <= MaxBindings
    /\ Feed(<<Tok("memory_cleanup_", f), Tok("decl", r)>>, "memory_cleanup_")
    /\ marked' = [marked EXCEPT ![runA.nextId] = f]

EnterBlock ==
  /\ Len(runA.stack) < MaxDepth
  /\ Feed(<<Tok("{", "")>>, "{")
  /\ UNCHANGED marked

EnterLoop ==
  /\ Len(runA.stack) < MaxDepth
  /\ Feed(<<Tok("loop{", "")>>, "loop{")
  /\ UNCHANGED marked

FallThrough == Feed(<<Tok("}", "")>>, "}") /\ UNCHANGED marked

Return == Feed(<<Tok("return", "")>>, "return") /\ UNCHANGED marked

Break ==
  /\ LoopDepth(runA.stack) > 0
  /\ Feed(<<Tok("break", "")>>, "break")
  /\ UNCHANGED marked

Continue ==
  /\ LoopDepth(runA.stack) > 0
  /\ Feed(<<Tok("continue", "")>>, "continue")
  /\ UNCHANGED marked

Abort == Feed(<<Tok("abort", "")>>, "abort") /\ UNCHANGED marked

Next ==
  \/ Malloc
  \/ Free
  \/ Use
  \/ Annotate
  \/ AnnotateOf
  \/ Declare
  \/ DeclareCleanup
  \/ EnterBlock
  \/ EnterLoop
  \/ FallThrough
  \/ Return
  \/ Break
  \/ Continue
  \/ Abort

Spec == Init /\ [][Next]_vars

(***************************************************************************)
(* C1.  Every annotation macro is inert: whatever the client program, the  *)
(* program as annotated and the program with its annotations erased behave *)
(* alike, step for step: same heap, same scopes, same cleanup calls, same  *)
(* undefined behaviour, and neither is refused by the compiler.  An        *)
(* annotation therefore blocks, adds or changes no allocation, release or  *)
(* use.                                                                    *)
(***************************************************************************)
AnnotationsInert == runA = runE

\* An annotation has just been written in a program that has already
\* allocated and released a resource.
AnnotationsInertWitness ==
  /\ last \in {"annotation", "annotation_of"}
  /\ n >= 3
  /\ \E r \in Res : runA.heap[r] = "freed"
  /\ ~runA.err
  /\ runA = runE

(***************************************************************************)
(* C2.  A variable declared with memory_cleanup_(f) has f called on it     *)
(* exactly once when control has left its scope, by falling through the    *)
(* closing brace, by return, or by break or continue, and not at all as    *)
(* long as its scope is open.                                              *)
(***************************************************************************)
CleanupOnceOnExit ==
  \A b \in Ids :
    (marked[b] # "none" /\ b < runA.nextId) =>
      runA.ran[b] = (IF b \in OpenIds(runA) THEN 0 ELSE 1)

\* A break has just taken control out of the scope of a variable declared
\* with memory_cleanup_(freep), whose resource is now released, while
\* nothing undefined has happened.
CleanupOnceOnExitWitness ==
  /\ last = "break"
  /\ ~runA.ub
  /\ \E b \in Ids :
       /\ marked[b] = "freep"
       /\ b \notin OpenIds(runA)
       /\ runA.ran[b] = 1
       /\ \E r \in Res : runA.heap[r] = "freed"

=============================================================================
